---- MODULE Spec2Model ----
(***************************************************************************)
(* Draw Allocation Engine (CardDrawEngine) over the Entity Pool            *)
(* (StudentDataManager).                                                    *)
(*                                                                          *)
(* drawCard() is an async function: everything up to its `await` runs in   *)
(* one synchronous step (DrawCard), the continuation after the delay timer *)
(* runs in a second step (DrawResolve).  Listeners are called             *)
(* synchronously by emit(); a draw-start listener may call back into the   *)
(* engine or the pool, which is modelled by the `hook` input of DrawCard.  *)
(***************************************************************************)
EXTENDS Integers, Sequences, FiniteSets, TLC

\* ---------------------------------------------------------------- bounds
DefaultStudentCount == 2   \* roster size (the program generates 49)
MaxInFlight == 2           \* drawCard() calls suspended at the same time
MaxTime == 2               \* clock values 1..MaxTime
RandomDen == 4             \* Math.random() is modelled as u / RandomDen
MaxId == 2                 \* ids 1..MaxId occur in imported data
MaxListeners == 2          \* callbacks registered besides EventHandler's
MaxTimerId == 3            \* ids returned by setTimeout: 1..MaxTimerId

\* ------------------------------------------------------------- constants
Null == 0                  \* drawnAt: null
Rarities == {"N", "R", "SR"}
drawModes == {"random", "weighted", "sequential"}
\* rarityWeights of the constructor, in tenths (1.0, 0.5, 0.1)
DefaultRarityWeights == [r \in Rarities |-> CASE r = "N" -> 10 [] r = "R" -> 5 [] OTHER -> 1]

VARIABLES
  students,       \* StudentDataManager.students
  drawHistory,    \* CardDrawEngine.drawHistory
  isDrawing,      \* CardDrawEngine.isDrawing
  currentMode,    \* CardDrawEngine.currentMode
  rarityWeights,  \* CardDrawEngine.rarityWeights
  pending,        \* drawCard() calls suspended at `await simulateDrawDelay()`
  resetDuring,    \* calls in `pending` during whose delay reset() was called
  now,            \* the clock read by new Date()
  studentDataManager, \* CardDrawEngine.studentDataManager: "pool" or "undefined"
  eventListeners, \* the callbacks registered with the engine and with the pool
  isProcessing,   \* EventHandler.isProcessing
  debounceTimers, \* EventHandler.debounceTimers: key -> timer id (0: no entry)
  timers,         \* the timeouts set by debounce() and neither fired nor cleared
  out             \* the last call, its outcome and the notifications it emitted

vars == <<students, drawHistory, isDrawing, currentMode, rarityWeights,
          pending, resetDuring, now, studentDataManager, eventListeners,
          isProcessing, debounceTimers, timers, out>>

\* The engine and pool fields as one value, so that a call made from inside
\* a listener can be composed with the call that emitted the notification.
State == [students |-> students, drawHistory |-> drawHistory,
          isDrawing |-> isDrawing, currentMode |-> currentMode,
          rarityWeights |-> rarityWeights, pending |-> pending,
          resetDuring |-> resetDuring, now |-> now,
          studentDataManager |-> studentDataManager,
          eventListeners |-> eventListeners, isProcessing |-> isProcessing,
          debounceTimers |-> debounceTimers, timers |-> timers]

Apply(s) ==
  /\ students' = s.students
  /\ drawHistory' = s.drawHistory
  /\ isDrawing' = s.isDrawing
  /\ currentMode' = s.currentMode
  /\ rarityWeights' = s.rarityWeights
  /\ pending' = s.pending
  /\ resetDuring' = s.resetDuring
  /\ now' = s.now
  /\ studentDataManager' = s.studentDataManager
  /\ eventListeners' = s.eventListeners
  /\ isProcessing' = s.isProcessing
  /\ debounceTimers' = s.debounceTimers
  /\ timers' = s.timers

\* A notification: engine events carry a student id and/or a count.
Ev(type, student, count, reason) ==
  [type |-> type, student |-> student, count |-> count, reason |-> reason]

\* ------------------------------------------------------------ Entity Pool
\* the i-th name of the constructor's list, in ASCII
studentNames(i) == "name" \o ToString(i)

getStudentAvatar(name) == "./images/" \o name \o ".jpg"

\* a filter that forgets the isDrawn test
getAvailableStudents_all(studs) == studs

getAvailableStudents(studs) == SelectSeq(studs, LAMBDA st : ~st.isDrawn)

\* a filter that forgets the isDrawn test
getDrawnStudents_all(studs) == studs

getDrawnStudents(studs) == SelectSeq(studs, LAMBDA st : st.isDrawn)

\* a lookup that falls back to the first student instead of null
getStudentById_orFirst(studs, id) ==
  IF \E i \in 1..Len(studs) : studs[i].id = id
  THEN CHOOSE i \in 1..Len(studs) :
         /\ studs[i].id = id
         /\ \A j \in 1..(i - 1) : studs[j].id # id
  ELSE IF studs = <<>> THEN 0 ELSE 1

\* index of the first student with this id, 0 when there is none
getStudentById(studs, id) ==
  IF \E i \in 1..Len(studs) : studs[i].id = id
  THEN CHOOSE i \in 1..Len(studs) :
         /\ studs[i].id = id
         /\ \A j \in 1..(i - 1) : studs[j].id # id
  ELSE 0

\* a mark that stamps drawnAt and forgets the flag
markStudentAsDrawn_noFlag(studs, id, t) ==
  LET i == getStudentById(studs, id) IN
  IF i # 0 /\ ~studs[i].isDrawn
  THEN [ok |-> TRUE,
        students |-> [studs EXCEPT ![i].drawnAt = t],
        events |-> <<Ev("student-drawn", id, t, ""),
                     Ev("data-updated", id, t, "student-drawn")>>]
  ELSE [ok |-> FALSE, students |-> studs, events |-> <<>>]

markStudentAsDrawn(studs, id, t) ==
  LET i == getStudentById(studs, id) IN
  IF i # 0 /\ ~studs[i].isDrawn
  THEN [ok |-> TRUE,
        students |-> [studs EXCEPT ![i].isDrawn = TRUE, ![i].drawnAt = t],
        events |-> <<Ev("student-drawn", id, t, ""),
                     Ev("data-updated", id, t, "student-drawn")>>]
  ELSE [ok |-> FALSE, students |-> studs, events |-> <<>>]

\* a reset that flips the flag instead of clearing it
resetAllStudents_toggle(studs) ==
  [students |-> [i \in 1..Len(studs) |->
                   [studs[i] EXCEPT !.isDrawn = ~@, !.drawnAt = Null]],
   events |-> <<Ev("data-reset", 0, Len(studs), ""),
                Ev("data-updated", 0, 0, "reset")>>]

resetAllStudents(studs) ==
  [students |-> [i \in 1..Len(studs) |->
                   [studs[i] EXCEPT !.isDrawn = FALSE, !.drawnAt = Null]],
   events |-> <<Ev("data-reset", 0, Len(studs), ""),
                Ev("data-updated", 0, 0, "reset")>>]

\* Math.random() in hundredths
generateRarity(random) ==
  IF random < 1 THEN "SR" ELSE IF random < 10 THEN "R" ELSE "N"

\* Math.max(...ids) of no ids at all is -Infinity, and -Infinity + 1 is
\* -Infinity; it is represented by an integer below every id that occurs
NegInfinity == -1000

MathMax(ids) ==
  IF ids = {} THEN NegInfinity ELSE CHOOSE m \in ids : \A i \in ids : i <= m

\* the template literal `...seed=${n}`
dicebear(n) ==
  "https://api.dicebear.com/7.x/avataaars/svg?seed="
    \o (IF n = NegInfinity THEN "-Infinity" ELSE ToString(n))

\* an add that creates the student as drawn
addStudent_drawn(studs, name, avatar, random) ==
  LET max == MathMax({studs[i].id : i \in 1..Len(studs)})
      newId == IF max = NegInfinity THEN NegInfinity ELSE max + 1
      newStudent == [id |-> newId, name |-> name,
                     avatar |-> IF avatar # "" THEN avatar ELSE dicebear(newId),
                     rarity |-> generateRarity(random),
                     isDrawn |-> TRUE, drawnAt |-> Null]
  IN [students |-> Append(studs, newStudent), student |-> newStudent]

\* avatar "" stands for the default null; nothing is emitted
addStudent(studs, name, avatar, random) ==
  LET max == MathMax({studs[i].id : i \in 1..Len(studs)})
      newId == IF max = NegInfinity THEN NegInfinity ELSE max + 1
      newStudent == [id |-> newId, name |-> name,
                     avatar |-> IF avatar # "" THEN avatar ELSE dicebear(newId),
                     rarity |-> generateRarity(random),
                     isDrawn |-> FALSE, drawnAt |-> Null]
  IN [students |-> Append(studs, newStudent), student |-> newStudent]

removeStudent(studs, id) ==
  LET index == getStudentById(studs, id) IN
  IF index # 0
  THEN [ok |-> TRUE,
        students |-> SubSeq(studs, 1, index - 1) \o SubSeq(studs, index + 1, Len(studs))]
  ELSE [ok |-> FALSE, students |-> studs]

\* One element of the array handed to importStudents.  isNull marks an element
\* on which `data.id` throws (null, undefined); a field that is absent, or
\* present and falsy, is 0 for id and "" for the strings.
importedStudent(data, index, random) ==
  [id |-> IF data.id # 0 THEN data.id ELSE index,
   name |-> IF data.name # "" THEN data.name
            ELSE "xuesheng" \o ToString(index) \o "hao",
   avatar |-> IF data.avatar # "" THEN data.avatar ELSE dicebear(index),
   rarity |-> IF data.rarity # "" THEN data.rarity ELSE generateRarity(random),
   isDrawn |-> FALSE, drawnAt |-> Null]

\* studentsData = [isArray, items]; randoms[i] is what Math.random() returns
\* if element i needs a rarity.  The roster is cleared before the loop; an
\* element that throws ends the loop in the catch block, which returns false
\* and leaves what the loop had pushed.
importStudents(studs, studentsData, randoms) ==
  IF ~studentsData.isArray
  THEN [ok |-> FALSE, students |-> studs, events |-> <<>>]
  ELSE
    LET items == studentsData.items
        thrown == {i \in 1..Len(items) : items[i].isNull}
        n == IF thrown = {} THEN Len(items)
             ELSE (CHOOSE i \in thrown : \A j \in thrown : i <= j) - 1
        imported == [i \in 1..n |-> importedStudent(items[i], i, randoms[i])]
    IN IF thrown # {}
       THEN [ok |-> FALSE, students |-> imported, events |-> <<>>]
       ELSE [ok |-> TRUE, students |-> imported,
             events |-> <<Ev("data-imported", 0, Len(imported), ""),
                          Ev("data-updated", 0, Len(imported), "import")>>]

\* an export that leaves the avatar out
exportStudents_noAvatar(studs) ==
  [i \in 1..Len(studs) |->
     [isNull |-> FALSE, id |-> studs[i].id, name |-> studs[i].name,
      avatar |-> "", rarity |-> studs[i].rarity]]

exportStudents(studs) ==
  [i \in 1..Len(studs) |->
     [isNull |-> FALSE, id |-> studs[i].id, name |-> studs[i].name,
      avatar |-> studs[i].avatar, rarity |-> studs[i].rarity]]

\* ------------------------------------------------------ selection policies
\* Math.floor(Math.random() * n), as a 1-based index
\* Math.floor applied to Math.random() alone: the index is always 0
randomDraw_first(availableStudents, u) == availableStudents[1]

randomDraw(availableStudents, u) ==
  availableStudents[((u * Len(availableStudents)) \div RandomDen) + 1]

weightOf(weights, rarity) ==
  IF rarity \in DOMAIN weights /\ weights[rarity] # 0 THEN weights[rarity] ELSE 10

RECURSIVE totalWeight(_, _)
totalWeight(availableStudents, weights) ==
  IF availableStudents = <<>> THEN 0
  ELSE weightOf(weights, Head(availableStudents).rarity)
       + totalWeight(Tail(availableStudents), weights)

\* random = u/RandomDen * totalWeight; both sides are scaled by RandomDen
RECURSIVE weightedWalk(_, _, _)
weightedWalk(rest, weights, random) ==
  IF Len(rest) = 1 THEN Head(rest)
  ELSE LET r == random - RandomDen * weightOf(weights, Head(rest).rarity) IN
       IF r <= 0 THEN Head(rest) ELSE weightedWalk(Tail(rest), weights, r)

\* a walk that starts at the end of the snapshot
weightedDraw_fromEnd(availableStudents, weights, u) ==
  weightedWalk([i \in 1..Len(availableStudents) |->
                  availableStudents[Len(availableStudents) + 1 - i]],
               weights, u * totalWeight(availableStudents, weights))

weightedDraw(availableStudents, weights, u) ==
  weightedWalk(availableStudents, weights, u * totalWeight(availableStudents, weights))

\* a sequential draw without the sort
sequentialDraw_first(availableStudents) == availableStudents[1]

sequentialDraw(availableStudents) ==
  LET i == CHOOSE i \in 1..Len(availableStudents) :
             /\ \A j \in 1..Len(availableStudents) :
                  availableStudents[i].id <= availableStudents[j].id
             /\ \A j \in 1..(i - 1) :
                  availableStudents[j].id # availableStudents[i].id
  IN availableStudents[i]

selectStudent(s, availableStudents, u) ==
  CASE s.currentMode = "weighted" -> weightedDraw(availableStudents, s.rarityWeights, u)
    [] s.currentMode = "sequential" -> sequentialDraw(availableStudents)
    [] OTHER -> randomDraw(availableStudents, u)

\* ------------------------------------------------------ CardDrawEngine
NoNested == [result |-> "none", histLen0 |-> 0, histLen1 |-> 0, busyAfter |-> FALSE]

\* what a call reports: the notifications it emitted, its outcome, and what a
\* call made from inside its draw-start listener observed
\* id and mode are the arguments of calls that take one (0 and "" otherwise),
\* value is what a query returns, drawingAtStart is the isDrawing flag that the
\* draw-start listeners of a draw find
Outcome(op, s, result, events, call, markOk, nested) ==
  [op |-> op, s |-> s, result |-> result, events |-> events, call |-> call,
   markOk |-> markOk, nested |-> nested, id |-> 0, mode |-> "",
   value |-> <<>>, drawingAtStart |-> FALSE]

\* A callback is one of EventHandler's (bindModuleEvents), "render" (returns
\* normally and touches nothing) or "throw" (raises an exception).
throwsAt(callbacks) == {i \in 1..Len(callbacks) : callbacks[i] = "throw"}

\* what the first n callbacks leave behind: handleDrawComplete and
\* handleDrawError clear EventHandler.isProcessing, the others only render
runCallbacks(s, callbacks, n) ==
  IF \E i \in 1..n : callbacks[i] \in {"handleDrawComplete", "handleDrawError"}
  THEN [s EXCEPT !.isProcessing = FALSE]
  ELSE s

\* the callbacks emit() finds for an event (none for an unknown event); in
\* emit they are bound by a quantifier, so that they are computed once
callbacksFor(s, event) ==
  IF event \in DOMAIN s.eventListeners THEN s.eventListeners[event] ELSE <<>>

\* the position at which a forEach without try/catch stops
firstThrow(callbacks) ==
  IF throwsAt(callbacks) = {} THEN Len(callbacks)
  ELSE CHOOSE i \in throwsAt(callbacks) : \A j \in throwsAt(callbacks) : i <= j

\* what emit() did: how many callbacks were registered, how many were called,
\* how many exceptions were caught, and whether one left emit()
heard(e) ==
  [event |-> e.event, listeners |-> e.listeners, called |-> e.called,
   caught |-> e.caught]

\* an emit without the try/catch around the callback: forEach stops at the
\* first callback that throws and the exception leaves emit()
emit_uncaught(s, event) ==
  CHOOSE e \in
    {[s |-> runCallbacks(st, callbacks, firstThrow(callbacks)), event |-> event,
      listeners |-> Len(callbacks), called |-> firstThrow(callbacks),
      caught |-> 0, escaped |-> throwsAt(callbacks) # {}] :
       st \in {s}, callbacks \in {callbacksFor(s, event)}} : TRUE

\* CardDrawEngine.emit(event, data): every registered callback is called in
\* registration order, each inside its own try/catch
emit(s, event) ==
  CHOOSE e \in
    {[s |-> runCallbacks(st, callbacks, Len(callbacks)), event |-> event,
      listeners |-> Len(callbacks), called |-> Len(callbacks),
      caught |-> Cardinality(throwsAt(callbacks)), escaped |-> FALSE] :
       st \in {s}, callbacks \in {callbacksFor(s, event)}} : TRUE

\* a pool emit without the try/catch around the callback
poolEmit_uncaught(s, event) ==
  CHOOSE e \in
    {[s |-> runCallbacks(st, callbacks, firstThrow(callbacks)), event |-> event,
      listeners |-> Len(callbacks), called |-> firstThrow(callbacks),
      caught |-> 0, escaped |-> throwsAt(callbacks) # {}] :
       st \in {s}, callbacks \in {callbacksFor(s, event)}} : TRUE

\* StudentDataManager.emit(event, data): the same loop, the data wrapped in
\* { detail: data }
poolEmit(s, event) ==
  CHOOSE e \in
    {[s |-> runCallbacks(st, callbacks, Len(callbacks)), event |-> event,
      listeners |-> Len(callbacks), called |-> Len(callbacks),
      caught |-> Cardinality(throwsAt(callbacks)), escaped |-> FALSE] :
       st \in {s}, callbacks \in {callbacksFor(s, event)}} : TRUE

\* the flag set only after the delay, i.e. not yet when draw-start is emitted
enterDrawing_late(s) == s

\* `this.isDrawing = true` at the head of the try block
enterDrawing(s) == [s EXCEPT !.isDrawing = TRUE]

\* a drawCard without the finally block
finally_missing(s) == s

\* the finally block of drawCard
finally(s) == [s EXCEPT !.isDrawing = FALSE]

\* the busy check moved inside the try block, so that finally runs
rejectBusy_insideTry(s) == finally(s)

\* `throw new Error('正在抽卡中...')` is outside the try block: no emit, no finally
rejectBusy(s) == s

\* the exhausted pool is reported through draw-error before the throw
exhaustedEvents == <<Ev("draw-error", 0, 0, "ExhaustedPool")>>

\* the catch and finally blocks of drawCard: draw-error is emitted, the
\* exception is thrown on, isDrawing is cleared
catch(s, events, reports) ==
  LET e == emit(s, "draw-error") IN
  [Outcome("drawCard", finally(e.s), "ListenerError",
           events \o <<Ev("draw-error", 0, 0, "ListenerError")>>, 0, TRUE, NoNested)
     EXCEPT !.value = reports \o <<heard(e)>>]

\* a name for the closure of a drawCard() call while it is suspended
freeCall(pend) ==
  CHOOSE c \in 1..(Cardinality(pend) + 1) :
    /\ \A p \in pend : p.call # c
    /\ \A d \in 1..(c - 1) : \E p \in pend : p.call = d

\* the try block of drawCard() after draw-start was delivered, up to the
\* await: select, mark (the pool emits student-drawn and data-updated), push
\* the record.  l is what the draw-start listeners did, start what emit() did.
\* The intermediate results are bound by a quantifier, so that each is
\* computed once.
commit(availableStudents, u, l, start, startEvents) ==
  LET selected == selectStudent(start.s, availableStudents, u)
      mark == markStudentAsDrawn(start.s.students, selected.id, start.s.now)
      announce == poolEmit([start.s EXCEPT !.students = mark.students], "student-drawn")
  IN CHOOSE r \in
       {LET updated == poolEmit(drawn.s, "data-updated")
            drawRecord == [student |-> selectedStudent.id,
                           rarity |-> selectedStudent.rarity,
                           timestamp |-> start.s.now,
                           mode |-> start.s.currentMode,
                           remainingCount |-> Len(availableStudents) - 1]
            call == freeCall(start.s.pending)
            after == IF m.ok THEN updated.s ELSE start.s
        IN IF m.ok /\ drawn.escaped
           THEN catch(drawn.s, startEvents \o SubSeq(m.events, 1, 1),
                      <<heard(start), heard(drawn)>>)
           ELSE IF m.ok /\ updated.escaped
           THEN catch(updated.s, startEvents \o m.events,
                      <<heard(start), heard(drawn), heard(updated)>>)
           ELSE [Outcome("drawCard",
                         [after EXCEPT !.drawHistory = Append(@, drawRecord),
                                       !.pending = @ \cup {[call |-> call,
                                                            drawRecord |-> drawRecord]}],
                         "pending", startEvents \o m.events, call, m.ok, l.nested)
                   EXCEPT !.drawingAtStart = l.isDrawing,
                          !.value = IF m.ok
                                    THEN <<heard(start), heard(drawn), heard(updated)>>
                                    ELSE <<heard(start)>>] :
          selectedStudent \in {selected}, m \in {mark}, drawn \in {announce}} : TRUE

\* drawCard() up to `await this.simulateDrawDelay()`.  l is what the draw-start
\* listeners made of the state enterDrawing(s) when emit() called them.
\* The snapshot is taken before draw-start is emitted; the mode and the pool
\* are read after it.  The value returned by markStudentAsDrawn is dropped.
\* `this.studentDataManager.getAvailableStudents()` on an engine constructed
\* without a pool is a TypeError thrown before the try block: no emit, no
\* finally.  An exception inside the try block (only one that left an emit
\* could be) goes through the catch block.
drawCardWith(s, u, l) ==
  IF s.isDrawing
  THEN Outcome("drawCard", rejectBusy(s), "Busy", <<>>, 0, TRUE, NoNested)
  ELSE IF s.studentDataManager = "undefined"
  THEN Outcome("drawCard", s, "TypeError", <<>>, 0, TRUE, NoNested)
  ELSE
    LET availableStudents == getAvailableStudents(s.students) IN
    IF Len(availableStudents) = 0
    THEN LET e == emit(s, "draw-error") IN
         [Outcome("drawCard", e.s, "ExhaustedPool", exhaustedEvents, 0, TRUE, NoNested)
            EXCEPT !.value = <<heard(e)>>]
    ELSE
      LET startEvents == <<Ev("draw-start", 0, Len(availableStudents), "")>> IN
      CHOOSE r \in
        {IF start.escaped
         THEN catch(start.s, startEvents \o heardBy.events, <<heard(start)>>)
         ELSE commit(availableStudents, u, heardBy, start,
                     startEvents \o heardBy.events) :
           heardBy \in {l}, start \in {emit(l.s, "draw-start")}} : TRUE

\* listeners that only render; isDrawing is the flag they are called under
passiveListener(s) ==
  [s |-> s, events |-> <<>>, nested |-> NoNested, isDrawing |-> s.isDrawing]

\* drawCard() called from a listener (its own listeners are passive)
drawCardNested(s, u) ==
  LET r == drawCardWith(s, u, passiveListener(enterDrawing(s))) IN
  [s |-> r.s, events |-> r.events, isDrawing |-> s.isDrawing,
   nested |-> [result |-> r.result, histLen0 |-> Len(s.drawHistory),
               histLen1 |-> Len(r.s.drawHistory), busyAfter |-> r.s.isDrawing]]

\* a draw-start listener: renders only, calls drawCard() again, or calls the
\* pool's markStudentAsDrawn(id)
drawStartListener(s, hook, u2) ==
  CASE hook.kind = "drawCard" -> drawCardNested(s, u2)
    [] hook.kind = "markStudentAsDrawn" ->
         LET m == markStudentAsDrawn(s.students, hook.id, s.now) IN
         [s |-> [s EXCEPT !.students = m.students], events |-> m.events,
          nested |-> NoNested, isDrawing |-> s.isDrawing]
    [] OTHER -> passiveListener(s)

drawCard(s, u, hook, u2) ==
  drawCardWith(s, u, drawStartListener(enterDrawing(s), hook, u2))

\* a continuation that commits the draw after the delay (mark and push again)
drawResolve_commitLate(s, p) ==
  LET m == markStudentAsDrawn(s.students, p.drawRecord.student, s.now) IN
  Outcome("drawResolve",
          finally([s EXCEPT !.students = m.students,
                            !.drawHistory = Append(@, p.drawRecord),
                            !.pending = @ \ {p}, !.resetDuring = @ \ {p.call}]),
          "success",
          <<Ev("draw-complete", p.drawRecord.student, p.drawRecord.remainingCount, "")>>,
          p.call, TRUE, NoNested)

\* a continuation that returns without emitting draw-complete
drawResolve_silent(s, p) ==
  Outcome("drawResolve",
          finally([s EXCEPT !.pending = @ \ {p}, !.resetDuring = @ \ {p.call}]),
          "success", <<>>, p.call, TRUE, NoNested)

\* the continuation of drawCard() after the delay: emit draw-complete, return,
\* then the finally block
drawResolve(s, p) ==
  LET completeEvents ==
        <<Ev("draw-complete", p.drawRecord.student, p.drawRecord.remainingCount, "")>>
  IN CHOOSE r \in
       {IF done.escaped
        THEN [catch(done.s, completeEvents, <<heard(done)>>)
                EXCEPT !.op = "drawResolve", !.call = p.call]
        ELSE [Outcome("drawResolve", finally(done.s), "success", completeEvents,
                      p.call, TRUE, NoNested)
                EXCEPT !.value = <<heard(done)>>] :
          done \in {emit([s EXCEPT !.pending = @ \ {p}, !.resetDuring = @ \ {p.call}],
                         "draw-complete")}} : TRUE

\* a reset that forgets `this.drawHistory = []`
reset_keepHistory(s) ==
  LET r == resetAllStudents(s.students) IN
  Outcome("reset",
          [s EXCEPT !.students = r.students,
                    !.isDrawing = FALSE,
                    !.resetDuring = @ \cup {p.call : p \in s.pending}],
          "ok",
          r.events \o <<Ev("reset-complete", 0, Len(r.students), "")>>,
          0, TRUE, NoNested)

reset(s) ==
  LET r == resetAllStudents(s.students) IN
  IF s.studentDataManager = "undefined"
  THEN Outcome("reset", s, "TypeError", <<>>, 0, TRUE, NoNested)
  ELSE
  Outcome("reset",
          [s EXCEPT !.students = r.students,
                    !.drawHistory = <<>>,
                    !.isDrawing = FALSE,
                    !.resetDuring = @ \cup {p.call : p \in s.pending}],
          "ok",
          r.events \o <<Ev("reset-complete", 0, Len(r.students), "")>>,
          0, TRUE, NoNested)

\* a setDrawMode without the validity test
setDrawMode_unchecked(s, mode) ==
  [Outcome("setDrawMode", [s EXCEPT !.currentMode = mode], "ok", <<>>, 0, TRUE, NoNested)
     EXCEPT !.mode = mode]

setDrawMode(s, mode) ==
  IF mode \in drawModes
  THEN [Outcome("setDrawMode", [s EXCEPT !.currentMode = mode], "ok", <<>>, 0, TRUE, NoNested)
          EXCEPT !.mode = mode]
  ELSE [Outcome("setDrawMode", s, "InvalidPolicy", <<>>, 0, TRUE, NoNested)
          EXCEPT !.mode = mode]

\* ---------------------------------------------------------------- queries
\* [...seq].reverse()
Reverse(seq) == [i \in 1..Len(seq) |-> seq[Len(seq) + 1 - i]]

\* seq.slice(0, end) for end >= 0
slice(seq, end) == SubSeq(seq, 1, IF end < Len(seq) THEN end ELSE Len(seq))

\* the argument of getDrawHistory: left out (the default null) or a number
NoLimit == [given |-> FALSE, value |-> 0]

Limit(n) == [given |-> TRUE, value |-> n]

\* `limit ? ... : ...`: null and 0 are both falsy
truthy(limit) == limit.given /\ limit.value # 0

\* a getDrawHistory that reverses the stored array instead of a copy
getDrawHistory_inPlace(s, limit) ==
  LET history == Reverse(s.drawHistory) IN
  [Outcome("getDrawHistory", [s EXCEPT !.drawHistory = history], "ok", <<>>, 0, TRUE, NoNested)
     EXCEPT !.value = [limit |-> limit,
                       records |-> IF truthy(limit) THEN slice(history, limit.value)
                                   ELSE history]]

getDrawHistory(s, limit) ==
  LET history == Reverse(s.drawHistory) IN
  [Outcome("getDrawHistory", s, "ok", <<>>, 0, TRUE, NoNested)
     EXCEPT !.value = [limit |-> limit,
                       records |-> IF truthy(limit) THEN slice(history, limit.value)
                                   ELSE history]]

\* seq.reduce((acc, x) => { acc[x.rarity] = (acc[x.rarity] || 0) + 1; return acc }, {})
\* over students, or over records (record.student.rarity)
rarityCount(seq) ==
  [k \in {seq[i].rarity : i \in 1..Len(seq)} |->
     Cardinality({i \in 1..Len(seq) : seq[i].rarity = k})]

\* the same reduction over record.mode
modeCount(history) ==
  [k \in {history[i].mode : i \in 1..Len(history)} |->
     Cardinality({i \in 1..Len(history) : history[i].mode = k})]

\* the pool's getStatistics(); drawRate is (drawn / total * 100).toFixed(1),
\* kept in tenths of a percent
poolStatistics(studs) ==
  LET total == Len(studs)
      drawn == Len(getDrawnStudents(studs))
  IN [total |-> total,
      drawn |-> drawn,
      available |-> total - drawn,
      rarityDistribution |-> rarityCount(studs),
      drawRate |-> IF total > 0 THEN (2000 * drawn + total) \div (2 * total) ELSE 0]

\* an analysis that measures the first record's interval from time 0
analyzeDrawHistory_fromZero(history) ==
  IF Len(history) = 0
  THEN [totalDraws |-> 0, averageDrawTime |-> 0,
        rarityDistribution |-> <<>>, drawsByMode |-> <<>>]
  ELSE LET n == Len(history) IN
       [totalDraws |-> n,
        averageDrawTime |-> (2 * history[n].timestamp + n) \div (2 * n),
        rarityDistribution |-> rarityCount(history),
        drawsByMode |-> modeCount(history)]

\* analyzeDrawHistory(); one unit of the clock is one second, and the sum of
\* the intervals between consecutive records is last minus first
analyzeDrawHistory(history) ==
  IF Len(history) = 0
  THEN [totalDraws |-> 0, averageDrawTime |-> 0,
        rarityDistribution |-> <<>>, drawsByMode |-> <<>>]
  ELSE LET n == Len(history)
           sum == history[n].timestamp - history[1].timestamp
       IN [totalDraws |-> n,
           averageDrawTime |-> IF n > 1 THEN (2 * sum + (n - 1)) \div (2 * (n - 1)) ELSE 0,
           rarityDistribution |-> rarityCount(history),
           drawsByMode |-> modeCount(history)]

\* { ...a, ...b }: the keys of b replace those of a
spread(a, b) ==
  [k \in DOMAIN a \cup DOMAIN b |-> IF k \in DOMAIN b THEN b[k] ELSE a[k]]

\* the engine's getStatistics()
getStatistics(s) ==
  [Outcome("getStatistics", s, "ok", <<>>, 0, TRUE, NoNested)
     EXCEPT !.value = spread(spread(poolStatistics(s.students),
                                    analyzeDrawHistory(s.drawHistory)),
                             [currentMode |-> s.currentMode, isDrawing |-> s.isDrawing])]

\* array.sort((a, b) => a.id - b.id): ascending ids, equal ids in their old order
sortById(seq) ==
  [p \in 1..Len(seq) |->
     seq[CHOOSE i \in 1..Len(seq) :
           p = 1 + Cardinality({j \in 1..Len(seq) :
                                  \/ seq[j].id < seq[i].id
                                  \/ seq[j].id = seq[i].id /\ j < i})]]

\* array.sort by descending weight (`rarityWeights[rarity] || 1`), equal
\* weights in their old order
sortByWeight(seq, weights) ==
  [p \in 1..Len(seq) |->
     seq[CHOOSE i \in 1..Len(seq) :
           p = 1 + Cardinality({j \in 1..Len(seq) :
                                  \/ weightOf(weights, seq[j].rarity) > weightOf(weights, seq[i].rarity)
                                  \/ /\ weightOf(weights, seq[j].rarity) = weightOf(weights, seq[i].rarity)
                                     /\ j < i})]]

\* what previewNextDraw returns for a list of available students
previewOf(s, availableStudents) ==
  IF availableStudents = <<>> THEN <<>>
  ELSE CASE s.currentMode = "sequential" -> <<sortById(availableStudents)[1]>>
         [] s.currentMode = "weighted" ->
              slice(sortByWeight(availableStudents, s.rarityWeights), 5)
         [] OTHER -> availableStudents

\* a previewNextDraw that sorts the pool's own array
previewNextDraw_inPlace(s) ==
  [Outcome("previewNextDraw",
           [s EXCEPT !.students = IF s.currentMode = "sequential" THEN sortById(@)
                                  ELSE IF s.currentMode = "weighted"
                                       THEN sortByWeight(@, s.rarityWeights)
                                       ELSE @],
           "ok", <<>>, 0, TRUE, NoNested)
     EXCEPT !.value = previewOf(s, getAvailableStudents(s.students))]

\* previewNextDraw(): the sort is applied to the array that filter() returned
previewNextDraw(s) ==
  [Outcome("previewNextDraw", s, "ok", <<>>, 0, TRUE, NoNested)
     EXCEPT !.value = previewOf(s, getAvailableStudents(s.students))]

\* a canDraw that looks at the pool before it looks at the flag
canDraw_poolFirst(s) ==
  LET availableStudents == getAvailableStudents(s.students) IN
  [Outcome("canDraw", s, "ok", <<>>, 0, TRUE, NoNested)
     EXCEPT !.value = [canDraw |-> ~s.isDrawing /\ Len(availableStudents) > 0,
                       isDrawing |-> s.isDrawing,
                       availableCount |-> Len(availableStudents),
                       reason |-> IF Len(availableStudents) = 0 THEN "no cards left"
                                  ELSE IF s.isDrawing THEN "drawing" ELSE "null"]]

\* canDraw(); the two reasons stand for the messages of the source, "null"
\* for the reason null
canDraw(s) ==
  LET availableStudents == getAvailableStudents(s.students) IN
  [Outcome("canDraw", s, "ok", <<>>, 0, TRUE, NoNested)
     EXCEPT !.value = [canDraw |-> ~s.isDrawing /\ Len(availableStudents) > 0,
                       isDrawing |-> s.isDrawing,
                       availableCount |-> Len(availableStudents),
                       reason |-> IF s.isDrawing THEN "drawing"
                                  ELSE IF Len(availableStudents) = 0 THEN "no cards left"
                                  ELSE "null"]]

\* setRarityWeights(weights): the given keys replace the stored ones; nothing
\* is validated
setRarityWeights(s, weights) ==
  Outcome("setRarityWeights", [s EXCEPT !.rarityWeights = spread(@, weights)],
          "ok", <<>>, 0, TRUE, NoNested)

\* ---------------------------------------------------------------- actions
Hooks ==
  {[kind |-> "none", id |-> 0], [kind |-> "drawCard", id |-> 0]}
    \cup {[kind |-> "markStudentAsDrawn", id |-> i] : i \in 1..DefaultStudentCount}

QuietHooks == {h \in Hooks : h.kind \in {"none", "drawCard"}}

Randoms == 0..(RandomDen - 1)

\* the part of an Outcome kept in `out`, with what the call found before it
Report(r) ==
  [op |-> r.op, result |-> r.result, events |-> r.events, call |-> r.call,
   markOk |-> r.markOk, nested |-> r.nested, id |-> r.id, mode |-> r.mode,
   value |-> r.value, drawingAtStart |-> r.drawingAtStart,
   histLen0 |-> Len(drawHistory),
   resetInFlight |-> r.call \in resetDuring]

Do(r) == \E done \in {r} : Apply(done.s) /\ out' = Report(done)

DrawCardBy(hooks) ==
  \E u \in Randoms, hook \in hooks :
    \E u2 \in (IF hook.kind = "drawCard" THEN Randoms ELSE {0}) :
      LET r == drawCard(State, u, hook, u2) IN
      /\ Cardinality(r.s.pending) <= MaxInFlight
      /\ Do(r)

DrawCard == DrawCardBy(Hooks)

DrawCardQuiet == DrawCardBy(QuietHooks)

\* listeners that only render, as EventHandler's are
DrawCardPlain == DrawCardBy({h \in Hooks : h.kind = "none"})

\* a caller that awaits each draw, and calls reset() before the next one
DrawCardAwaited ==
  /\ pending = {}
  /\ drawHistory = <<>>
  /\ DrawCardPlain

Resolve(c) == \E p \in pending : p.call = c /\ Do(drawResolve(State, p))

DrawResolve == \E c \in 1..MaxInFlight : Resolve(c)

Reset == Do(reset(State))

SetDrawModeTo(modes) == \E mode \in modes : Do(setDrawMode(State, mode))

SetDrawMode == SetDrawModeTo(drawModes \cup {"lucky"})

Tick == now < MaxTime /\ now' = now + 1
        /\ UNCHANGED <<students, drawHistory, isDrawing, currentMode,
                       rarityWeights, pending, resetDuring, studentDataManager,
                       eventListeners, isProcessing, debounceTimers, timers, out>>

Limits == {NoLimit} \cup {Limit(n) : n \in 0..(DefaultStudentCount + 1)}

GetDrawHistoryOf(limits) == \E limit \in limits : Do(getDrawHistory(State, limit))

GetDrawHistory == GetDrawHistoryOf(Limits)

GetStatistics == Do(getStatistics(State))

CanDraw == Do(canDraw(State))

PreviewNextDraw == Do(previewNextDraw(State))

\* weights a caller configures, in tenths: super-rare switched off, ordinary
\* and rare made equal, everything switched off, rare doubled
WeightArguments ==
  {[SR |-> 0], [N |-> 5, R |-> 5], [N |-> 0, R |-> 0, SR |-> 0], [R |-> 20]}

SetRarityWeights == \E weights \in WeightArguments : Do(setRarityWeights(State, weights))

\* ------------------------------------------------ calls on the pool itself
RaritySamples == {0, 5, 50}

\* elements of imported arrays: a complete record with an id, a record with no
\* field at all, and null
FullRecord(id) ==
  [isNull |-> FALSE, id |-> id, name |-> "imported" \o ToString(id),
   avatar |-> "./imported" \o ToString(id) \o ".png", rarity |-> "R"]

BareRecord == [isNull |-> FALSE, id |-> 0, name |-> "", avatar |-> "", rarity |-> ""]

NullRecord == [isNull |-> TRUE, id |-> 0, name |-> "", avatar |-> "", rarity |-> ""]

ImportItems == {FullRecord(id) : id \in 1..MaxId} \cup {BareRecord, NullRecord}

ArraysOf(items) ==
  {[isArray |-> TRUE, items |-> a] :
     a \in UNION {[1..n -> items] : n \in 0..DefaultStudentCount}}

NotAnArray == [isArray |-> FALSE, items |-> <<>>]

ImportData == {NotAnArray} \cup ArraysOf(ImportItems)

\* the ids a caller passes: those of the roster, and 0, which no student has
IdArguments == {students[i].id : i \in 1..Len(students)} \cup {0}

\* the imports of at most one element that need no generated rarity
ShortImportData ==
  {d \in ImportData : Len(d.items) <= 1 /\ \A i \in 1..Len(d.items) : d.items[i] # BareRecord}

ImportStudentsFrom(dataSet) ==
  \E studentsData \in dataSet :
    \E randoms \in [1..Len(studentsData.items) -> RaritySamples] :
      /\ \A i \in 1..Len(studentsData.items) :
           (studentsData.items[i].isNull \/ studentsData.items[i].rarity # "")
             => randoms[i] = 50
      /\ LET r == importStudents(students, studentsData, randoms) IN
         Do([Outcome("importStudents", [State EXCEPT !.students = r.students],
                     IF r.ok THEN "true" ELSE "false", r.events, 0, TRUE, NoNested)
               EXCEPT !.id = Len(studentsData.items)])

ImportStudents == ImportStudentsFrom(ImportData)

\* importStudents(exportStudents()); the exported records are complete, so no
\* rarity is generated
ExportImport ==
  LET studentsData == [isArray |-> TRUE, items |-> exportStudents(students)]
      r == importStudents(students, studentsData, [i \in 1..Len(students) |-> 50])
  IN Do([Outcome("exportImport", [State EXCEPT !.students = r.students],
                 IF r.ok THEN "true" ELSE "false", r.events, 0, TRUE, NoNested)
           EXCEPT !.id = Len(studentsData.items)])

\* the roster is let grow to the size of the constructor's, and the ids to
\* one more than the largest imported one; the new student has no avatar of
\* its own and gets the common rarity
AddStudent ==
  /\ Len(students) < DefaultStudentCount
  /\ \A i \in 1..Len(students) : students[i].id <= MaxId
  /\ \E avatar \in {""}, random \in {50} :
       LET r == addStudent(students, "added", avatar, random) IN
       Do([Outcome("addStudent", [State EXCEPT !.students = r.students],
                   "ok", <<>>, 0, TRUE, NoNested)
             EXCEPT !.id = r.student.id])

RemoveStudent ==
  \E id \in IdArguments :
    LET r == removeStudent(students, id) IN
    Do([Outcome("removeStudent", [State EXCEPT !.students = r.students],
                IF r.ok THEN "true" ELSE "false", <<>>, 0, TRUE, NoNested)
          EXCEPT !.id = id])

MarkStudentAsDrawn ==
  \E id \in IdArguments :
    LET m == markStudentAsDrawn(students, id, now) IN
    Do([Outcome("markStudentAsDrawn", [State EXCEPT !.students = m.students],
                IF m.ok THEN "true" ELSE "false", m.events, 0, m.ok, NoNested)
          EXCEPT !.id = id])

\* generateRarity() gives every student a random rarity; the rosters explored
\* are the all-ordinary one and the three rotations of N, R, SR, ...
RarityCycle == <<"N", "R", "SR">>

InitialRarities ==
  {[i \in 1..DefaultStudentCount |-> "N"]}
    \cup {[i \in 1..DefaultStudentCount |-> RarityCycle[((i + k) % 3) + 1]] : k \in 0..2}

\* the roster of `new StudentDataManager()`
initializeDefaultData(rarity) ==
  [i \in 1..DefaultStudentCount |->
     [id |-> i, name |-> studentNames(i),
      avatar |-> getStudentAvatar(studentNames(i)),
      rarity |-> rarity[i], isDrawn |-> FALSE, drawnAt |-> Null]]

\* the events of the engine's and of the pool's eventListeners tables
engineEvents == {"draw-start", "draw-complete", "draw-error", "reset-complete"}

poolEvents == {"data-updated", "data-imported", "student-added",
               "student-removed", "student-drawn", "data-reset"}

\* both tables after construction: every known event with no callback
noListeners == [e \in engineEvents \cup poolEvents |-> <<>>]

\* the keys EventHandler passes to debounce()
debounceKeys == {"draw", "reset"}

\* the fields of `new EventHandler()`
InitHandler ==
  /\ isProcessing = FALSE
  /\ debounceTimers = [k \in debounceKeys |-> 0]
  /\ timers = {}

\* the engine's own fields after its constructor
InitFields ==
  /\ drawHistory = <<>>
  /\ isDrawing = FALSE
  /\ currentMode = "random"
  /\ rarityWeights = DefaultRarityWeights
  /\ pending = {}
  /\ resetDuring = {}
  /\ now = 1
  /\ out = [op |-> "init", result |-> "ok", events |-> <<>>, call |-> 0,
            markOk |-> TRUE, nested |-> NoNested, id |-> 0, mode |-> "",
            value |-> <<>>, drawingAtStart |-> FALSE,
            histLen0 |-> 0,
            resetInFlight |-> FALSE]

\* the fields of `new CardDrawEngine(pool)`, with a handler not yet initialized
InitEngine ==
  /\ studentDataManager = "pool"
  /\ eventListeners = noListeners
  /\ InitHandler
  /\ InitFields

InitWith(rarities) ==
  /\ \E rarity \in rarities : students = initializeDefaultData(rarity)
  /\ InitEngine

Init == InitWith(InitialRarities)

\* the roster on which generateRarity() returned N for every student
InitOrdinary == InitWith({[i \in 1..DefaultStudentCount |-> "N"]})

\* draw(), reset() and timer completions in any interleaving, with listeners
\* that call back.  The policy stays the constructor's `random`, under which
\* every available student can be selected and which does not read the
\* rarities, so one roster is explored.
Next == DrawCard \/ DrawResolve \/ Reset

Spec == InitOrdinary /\ [][Next]_vars

\* draw() calls only, under every policy and with the clock running: no reset,
\* listeners that at most call drawCard() again
NextDraws == DrawCardQuiet \/ DrawResolve \/ SetDrawMode \/ Tick

SpecDraws == Init /\ [][NextDraws]_vars

\* draw(), reset() and timer completions, where the delay timer of every
\* suspended drawCard() fires (setTimeout in simulateDrawDelay)
NextFair == DrawCardPlain \/ DrawResolve \/ Reset

FairSpec ==
  InitOrdinary /\ [][NextFair]_vars /\ \A c \in 1..MaxInFlight : WF_vars(Resolve(c))

\* arrays of complete records with pairwise distinct ids, in any order
DistinctIdArrays ==
  {d \in ArraysOf({FullRecord(id) : id \in 1..MaxId}) :
     \A i, j \in 1..Len(d.items) : i # j => d.items[i].id # d.items[j].id}

\* the state after construction and an import of such an array
InitImported ==
  /\ \E studentsData \in DistinctIdArrays :
       students = importStudents(initializeDefaultData([i \in 1..DefaultStudentCount |-> "N"]),
                                 studentsData,
                                 [i \in 1..Len(studentsData.items) |-> 50]).students
  /\ InitEngine

\* draws under every policy on rosters whose ids are in any order
NextSequence == DrawCardPlain \/ DrawResolve \/ SetDrawMode

SpecSequence == InitImported /\ [][NextSequence]_vars

\* the pool alone: rosters built by import, with any of their students marked
\* drawn, and the round trip through exportStudents
NextImport == ImportStudents \/ ExportImport \/ MarkStudentAsDrawn

SpecImport == InitOrdinary /\ [][NextImport]_vars

\* the pool driven directly and through the engine: import, add, remove,
\* markStudentAsDrawn, draw and reset
NextPool ==
  \/ ImportStudentsFrom(ShortImportData)
  \/ AddStudent
  \/ RemoveStudent
  \/ MarkStudentAsDrawn
  \/ DrawCardAwaited
  \/ DrawResolve
  \/ Reset

SpecPool == InitOrdinary /\ [][NextPool]_vars

\* the pool driven directly, reset() of the engine and the clock
NextClock ==
  \/ ImportStudentsFrom(ShortImportData)
  \/ AddStudent
  \/ RemoveStudent
  \/ MarkStudentAsDrawn
  \/ Reset
  \/ Tick

SpecClock == InitOrdinary /\ [][NextClock]_vars

\* drawCard() while the history is shorter than the default roster, called
\* while a draw is in progress (and rejected) or when none is suspended
DrawCardCapped ==
  /\ Len(drawHistory) < DefaultStudentCount
  /\ isDrawing \/ pending = {}
  /\ DrawCardPlain

\* the roster still holds default students only
DefaultRoster ==
  \A i \in 1..Len(students) : students[i].name = studentNames(students[i].id)

\* everything the history could be touched by: draws, reset, setDrawMode, the
\* two queries, and a caller that edits the default roster (removes one of its
\* students, adds one in its place, or imports another roster)
NextHistory ==
  \/ DrawCardCapped
  \/ DrawResolve
  \/ Reset
  \/ SetDrawModeTo({"sequential", "lucky"})
  \/ GetDrawHistory
  \/ GetStatistics
  \/ (DefaultRoster /\ AddStudent)
  \/ (DefaultRoster /\ Len(students) = DefaultStudentCount /\ RemoveStudent)
  \/ (DefaultRoster /\ ImportStudentsFrom(ShortImportData))

SpecHistory == InitOrdinary /\ [][NextHistory]_vars

\* weighted draws under configured weights
NextWeights ==
  \/ SetRarityWeights
  \/ SetDrawModeTo({"weighted"})
  \/ DrawCardPlain
  \/ DrawResolve

SpecWeights == Init /\ [][NextWeights]_vars

\* draw(), reset() and timer completions in any order
SpecStale == InitOrdinary /\ [][NextFair]_vars

\* draw, reset and the pool's add, remove and import, without direct calls
\* of markStudentAsDrawn
NextEdits ==
  \/ DrawCardAwaited
  \/ DrawResolve
  \/ Reset
  \/ AddStudent
  \/ RemoveStudent
  \/ ImportStudentsFrom(ShortImportData)

SpecEdits == InitOrdinary /\ [][NextEdits]_vars

\* canDraw() asked between draws, resets and timer completions
NextCanDraw == CanDraw \/ DrawCardPlain \/ DrawResolve \/ Reset

SpecCanDraw == InitOrdinary /\ [][NextCanDraw]_vars

\* rosters imported in any order of ids, then drawn from under every policy,
\* previewed, reset, and edited by add and remove between two cycles
NextOrder ==
  \/ DrawCardCapped
  \/ DrawResolve
  \/ SetDrawModeTo({"sequential", "weighted"})
  \/ PreviewNextDraw
  \/ Reset
  \/ (drawHistory = <<>> /\ pending = {} /\ AddStudent)
  \/ (drawHistory = <<>> /\ pending = {} /\ RemoveStudent)

SpecOrder == InitImported /\ [][NextOrder]_vars

\* draws, resets and statistics while the clock advances
NextTime == DrawCardCapped \/ DrawResolve \/ Reset \/ GetStatistics \/ Tick

SpecTime == Init /\ [][NextTime]_vars

TypeOK ==
  /\ isDrawing \in BOOLEAN
  /\ currentMode \in drawModes
  /\ Cardinality(pending) <= MaxInFlight
  /\ now \in 1..MaxTime
  /\ Len(drawHistory) <= Len(students)

\* ------------------------------------------------------------ properties
HasEvent(type) == \E i \in 1..Len(out.events) : out.events[i].type = type

\* C1: in a run of draw() calls without reset, no entity occurs twice in the
\* draw history.
C1_NoRepeat ==
  \A i, j \in 1..Len(drawHistory) :
    i # j => drawHistory[i].student # drawHistory[j].student

\* the run was continued until a draw failed with ExhaustedPool
C1_Witness ==
  /\ out.op = "drawCard" /\ out.result = "ExhaustedPool"
  /\ Len(drawHistory) >= 2

\* C2 (as claimed): there are never two unresolved draws at once, and the
\* Drawing flag is cleared only by the resolution of the draw in flight.
C2_OneDrawInFlight ==
  /\ [](Cardinality(pending) <= 1)
  /\ [][(isDrawing /\ ~isDrawing') => out'.op = "drawResolve"]_vars

\* C3: a draw() issued before the first one resolves, from the caller right
\* after the first call or from inside a draw-start listener, is rejected
\* with Busy, leaves the history as it is and leaves the flag set.
C3_BusyGuard ==
  /\ [](out.nested.result # "none" =>
          /\ out.nested.result = "Busy"
          /\ out.nested.histLen1 = out.nested.histLen0
          /\ out.nested.busyAfter)
  /\ [][(out.op = "drawCard" /\ out.result = "pending" /\ out'.op = "drawCard") =>
          /\ out'.result = "Busy"
          /\ drawHistory' = drawHistory
          /\ isDrawing']_vars

C3_Witness ==
  /\ out.op = "drawCard" /\ out.result = "Busy"
  /\ isDrawing /\ Cardinality(pending) = 1 /\ resetDuring = {}

C3_WitnessNested == out.op = "drawCard" /\ out.nested.result = "Busy"

\* C4 (as claimed): a draw during whose delay reset() was called resolves as
\* a failure reported through draw-error, not through draw-complete.
C4_ResetRejectsStaleDraw ==
  (out.op = "drawResolve" /\ out.resetInFlight) =>
    /\ out.result # "success"
    /\ HasEvent("draw-error")
    /\ ~HasEvent("draw-complete")

\* C5 (as claimed): when draw-complete is delivered for an entity, that entity
\* is marked drawn and its record is in the history; a failed draw leaves the
\* history as it found it.
C5_NoPartialCommit ==
  /\ \A i \in 1..Len(out.events) :
       out.events[i].type = "draw-complete" =>
         /\ \E k \in 1..Len(students) :
              students[k].id = out.events[i].student /\ students[k].isDrawn
         /\ \E k \in 1..Len(drawHistory) :
              /\ drawHistory[k].student = out.events[i].student
              /\ drawHistory[k].remainingCount = out.events[i].count
  /\ (out.op = "drawCard" /\ out.result \in {"Busy", "ExhaustedPool"}) =>
       Len(drawHistory) = out.histLen0

\* C6 (as claimed): when markStudentAsDrawn returns false for the selected
\* entity, the draw fails with CommitConflict, emits draw-error and appends
\* no record.
C6_CommitConflict ==
  (out.op = "drawCard" /\ ~out.markOk) =>
    /\ out.result = "CommitConflict"
    /\ HasEvent("draw-error")
    /\ Len(drawHistory) = out.histLen0

\* C7: on a fresh roster of n entities a draw() succeeds exactly while fewer
\* than n draws were made; after n draws no entity is available and the next
\* draw() fails with ExhaustedPool.
C7_Exhaustion ==
  /\ [](/\ Len(drawHistory) = DefaultStudentCount =>
             getAvailableStudents(students) = <<>>
        /\ out.op = "drawResolve" => out.result = "success"
        /\ (out.op = "drawCard" /\ out.result = "ExhaustedPool") =>
             (Len(drawHistory) = DefaultStudentCount /\ pending = {}))
  /\ [][(out'.op = "drawCard" /\ now' = now /\ ~isDrawing) =>
          /\ Len(drawHistory) < DefaultStudentCount =>
               (out'.result = "pending" /\ Len(drawHistory') = Len(drawHistory) + 1)
          /\ Len(drawHistory) = DefaultStudentCount =>
               out'.result = "ExhaustedPool"]_vars

C7_Witness ==
  /\ out.op = "drawCard" /\ out.result = "ExhaustedPool"
  /\ out.histLen0 = DefaultStudentCount
  /\ getAvailableStudents(students) = <<>>

\* C8: a draw() rejected with Busy or ExhaustedPool changes neither the flag,
\* the history, the policy, nor any entity.
C8_RejectedDrawChangesNothing ==
  [][(out'.op = "drawCard" /\ out'.result \in {"Busy", "ExhaustedPool"}) =>
       UNCHANGED <<students, drawHistory, isDrawing, currentMode, rarityWeights, pending>>]_vars

C8_Witness ==
  /\ out.op = "drawCard" /\ out.result = "ExhaustedPool"
  /\ currentMode # "random" /\ ~isDrawing

C8_WitnessBusy ==
  /\ out.op = "drawCard" /\ out.result = "Busy"
  /\ currentMode # "random" /\ drawHistory # <<>>

\* C9 (as claimed): every draw() that fails emits draw-error.
C9_FailureEmitsDrawError ==
  (out.op \in {"drawCard", "drawResolve"} /\ out.result \notin {"pending", "success"}) =>
    \E i \in 1..Len(out.events) :
      out.events[i].type = "draw-error" /\ out.events[i].reason = out.result

\* C10: with every delay timer firing, the engine does not stay Drawing, and
\* every suspended drawCard() resolves and leaves the engine Idle.
C10_NeverStuck ==
  /\ isDrawing ~> ~isDrawing
  /\ \A c \in 1..MaxInFlight :
       (\E p \in pending : p.call = c) ~>
         (out.op = "drawResolve" /\ out.call = c /\ ~isDrawing)

C10_Witness ==
  /\ out.op = "drawResolve" /\ out.result = "success"
  /\ ~isDrawing /\ pending = {}

\* C11: after reset(), whatever the state before it, every entity is undrawn
\* with drawnAt null, the history is empty, and reset-complete was emitted
\* carrying the size of the roster.
C11_ResetPostcondition ==
  out.op = "reset" =>
    /\ \A i \in 1..Len(students) : ~students[i].isDrawn /\ students[i].drawnAt = Null
    /\ Len(getAvailableStudents(students)) = Len(students)
    /\ drawHistory = <<>>
    /\ ~isDrawing
    /\ \E i \in 1..Len(out.events) :
         out.events[i].type = "reset-complete" /\ out.events[i].count = Len(students)

\* reset() was called with a record in the history and a draw in flight
C11_Witness ==
  /\ out.op = "reset" /\ out.histLen0 > 0 /\ resetDuring # {}

\* C12: reset() applied to the state a reset() left gives that state again
\* (roster, flags, timestamps, history, Drawing flag, policy), and a reset()
\* that follows a reset() changes none of them.
C12_ResetIdempotent ==
  /\ [](reset(reset(State).s).s = reset(State).s)
  /\ [][(out.op = "reset" /\ out'.op = "reset") =>
          UNCHANGED <<students, drawHistory, isDrawing, currentMode, rarityWeights>>]_vars

\* a state left by reset() with draws still suspended, where reset() runs again
C12_Witness ==
  /\ out.op = "reset" /\ Cardinality(pending) = MaxInFlight
  /\ reset(State).s = State

\* C14: importStudents(exportStudents()) succeeds and gives a roster with the
\* same ids, names, rarities and avatars in the same order, every student
\* undrawn with drawnAt null, whichever students were drawn before.
C14_ExportImportRoundTrip ==
  [][out'.op = "exportImport" =>
       /\ out'.result = "true"
       /\ Len(students') = Len(students)
       /\ \A i \in 1..Len(students) :
            /\ students'[i].id = students[i].id
            /\ students'[i].name = students[i].name
            /\ students'[i].rarity = students[i].rarity
            /\ students'[i].avatar = students[i].avatar
            /\ ~students'[i].isDrawn
            /\ students'[i].drawnAt = Null]_vars

\* the round trip of an imported roster whose ids are not the positions
C14_Witness ==
  /\ out.op = "exportImport" /\ out.result = "true"
  /\ Len(students) = DefaultStudentCount
  /\ students[1].id # 1

\* C15 (as claimed): an import that fails leaves the roster as it was.
C15_FailedImportKeepsRoster ==
  [][(out'.op = "importStudents" /\ out'.result = "false") => students' = students]_vars

\* C16 (as claimed): after an import that returned true, every id is a
\* positive integer and no two students have the same id.
C16_ImportedIdsUnique ==
  (out.op = "importStudents" /\ out.result = "true") =>
    /\ \A i \in 1..Len(students) : students[i].id \in Nat \ {0}
    /\ \A i, j \in 1..Len(students) : i # j => students[i].id # students[j].id

\* C13: a draw under the sequential policy records the smallest id among the
\* available students, and of two successive sequential draws the second
\* records the larger id.
C13_SequentialOrder ==
  /\ [](\A k \in 1..(Len(drawHistory) - 1) :
          (drawHistory[k].mode = "sequential" /\ drawHistory[k + 1].mode = "sequential")
            => drawHistory[k].student < drawHistory[k + 1].student)
  /\ [][(/\ Len(drawHistory') = Len(drawHistory) + 1
         /\ drawHistory'[Len(drawHistory')].mode = "sequential") =>
          /\ \E i \in 1..Len(students) :
               ~students[i].isDrawn /\ students[i].id = drawHistory'[Len(drawHistory')].student
          /\ \A i \in 1..Len(students) :
               ~students[i].isDrawn => drawHistory'[Len(drawHistory')].student <= students[i].id]_vars

\* a whole roster whose first student has not the smallest id was drawn
\* sequentially
C13_Witness ==
  /\ Len(students) = DefaultStudentCount /\ Len(drawHistory) = Len(students)
  /\ \A k \in 1..Len(drawHistory) : drawHistory[k].mode = "sequential"
  /\ students[1].id > students[2].id

\* C17: markStudentAsDrawn(id) for an id no student has, or whose student is
\* already drawn, returns false, emits nothing and changes no field, so that
\* the drawnAt set earlier is kept; for an undrawn student it sets isDrawn and
\* drawnAt of that student, changes nothing else, and returns true.
C17_MarkDrawn ==
  [][(out'.op = "markStudentAsDrawn" /\ now' = now) =>
       LET known == {i \in 1..Len(students) : students[i].id = out'.id} IN
       IF known = {} \/ students[CHOOSE i \in known : \A j \in known : i <= j].isDrawn
       THEN /\ out'.result = "false"
            /\ out'.events = <<>>
            /\ students' = students
       ELSE LET i == CHOOSE i \in known : \A j \in known : i <= j IN
            /\ out'.result = "true"
            /\ students' = [students EXCEPT ![i].isDrawn = TRUE, ![i].drawnAt = now]]_vars

\* a student drawn at an earlier time was marked again and the call refused
C17_Witness ==
  /\ out.op = "markStudentAsDrawn" /\ out.result = "false"
  /\ \E i \in 1..Len(students) :
       students[i].id = out.id /\ students[i].isDrawn /\ students[i].drawnAt < now

\* the id of no student was marked
C17_WitnessUnknown ==
  /\ out.op = "markStudentAsDrawn" /\ out.result = "false"
  /\ students # <<>>
  /\ \A i \in 1..Len(students) : students[i].id # out.id

\* C18: in every state reached through the constructor, import,
\* markStudentAsDrawn, draw, reset, add and remove, a student is drawn exactly
\* when its drawnAt is set; a call other than reset and import leaves every
\* drawn student that it does not remove as it was, and marking at any later
\* time does not move a drawnAt that is set.
C18_EntityState ==
  /\ [](\A i \in 1..Len(students) : students[i].isDrawn <=> students[i].drawnAt # Null)
  /\ [](\A id \in IdArguments, t \in now..MaxTime, i \in 1..Len(students) :
          students[i].drawnAt # Null =>
            markStudentAsDrawn(students, id, t).students[i] = students[i])
  /\ [][out'.op \notin {"reset", "importStudents"} =>
          \A i \in 1..Len(students) :
            students[i].drawnAt # Null =>
              \/ out'.op = "removeStudent" /\ out'.result = "true" /\ students[i].id = out'.id
              \/ \E j \in 1..Len(students') : students'[j] = students[i]]_vars

\* a student was added to a roster that has a drawn student
C18_Witness ==
  /\ out.op = "addStudent"
  /\ \E i \in 1..Len(students) : students[i].isDrawn /\ students[i].drawnAt # Null
  /\ \E i \in 1..Len(students) : students[i].id = out.id /\ ~students[i].isDrawn

\* C19: in every state the drawn and the available students together are the
\* roster (the lengths add up) and no student is in both lists.
C19_Partition ==
  /\ Len(getDrawnStudents(students)) + Len(getAvailableStudents(students)) = Len(students)
  /\ \A i \in 1..Len(getDrawnStudents(students)), j \in 1..Len(getAvailableStudents(students)) :
       getDrawnStudents(students)[i] # getAvailableStudents(students)[j]

\* a draw resolved on a roster with an added student, with both lists non-empty
C19_Witness ==
  /\ out.op = "drawResolve"
  /\ getDrawnStudents(students) # <<>> /\ getAvailableStudents(students) # <<>>
  /\ \E i \in 1..Len(students) : students[i].name = "added"

\* C20: setDrawMode with a name that is no policy fails and leaves the policy
\* as it was; with the name of a policy it sets that policy, and the draw that
\* follows records that policy and the student that policy selects.
C20_SetPolicy ==
  /\ [][out'.op = "setDrawMode" =>
          IF out'.mode \in {"random", "weighted", "sequential"}
          THEN out'.result = "ok" /\ currentMode' = out'.mode
          ELSE out'.result = "InvalidPolicy" /\ currentMode' = currentMode]_vars
  /\ [][(out.op = "setDrawMode" /\ Len(drawHistory') = Len(drawHistory) + 1) =>
          LET drawRecord == drawHistory'[Len(drawHistory')]
              mode == IF out.result = "ok" THEN out.mode ELSE currentMode
              availableStudents == getAvailableStudents(students)
          IN /\ drawRecord.mode = mode
             /\ CASE mode = "sequential" ->
                       drawRecord.student = sequentialDraw(availableStudents).id
                  [] mode = "weighted" ->
                       \E u \in Randoms :
                         drawRecord.student = weightedDraw(availableStudents, rarityWeights, u).id
                  [] OTHER ->
                       \E u \in Randoms :
                         drawRecord.student = randomDraw(availableStudents, u).id]_vars

\* two draws were recorded under different policies
C20_Witness ==
  /\ Len(drawHistory) >= 2
  /\ drawHistory[1].mode # drawHistory[2].mode
  /\ out.op = "drawCard" /\ out.result = "pending"

\* a name that is no policy was refused
C20_WitnessInvalid ==
  /\ out.op = "setDrawMode" /\ out.result = "InvalidPolicy"
  /\ currentMode # "random"

\* C21: getDrawHistory(limit) returns the records most recent first; for every
\* non-negative integer limit it returns exactly min(limit, n) of the n stored
\* records, without a limit it returns all of them, and it never changes the
\* stored history.
C21_HistoryQuery ==
  /\ \A limit \in Limits : getDrawHistory(State, limit).s.drawHistory = drawHistory
  /\ out.op = "getDrawHistory" =>
       LET n == Len(drawHistory)
           limit == out.value.limit
           records == out.value.records
           expected == IF ~limit.given THEN n
                       ELSE IF limit.value < n THEN limit.value ELSE n
       IN /\ Len(records) = expected
          /\ \A i \in 1..Len(records) : records[i] = drawHistory[n + 1 - i]

\* C22: getStatistics() reports the per-rarity distribution of the drawn
\* students and that of the whole roster, so after at least one draw the
\* distribution of the whole roster, which sums to the roster's size, can still
\* be read from the result.
C22_BothDistributions ==
  (out.op = "getStatistics" /\ Len(drawHistory) >= 1) =>
    LET distributions == {out.value[k] : k \in {"rarityDistribution"} \cap DOMAIN out.value}
    IN /\ rarityCount(drawHistory) \in distributions
       /\ rarityCount(students) \in distributions

\* C23: the remainingCount carried by draw-complete (the one stored in the
\* record) is the number of available students of the pool at the moment the
\* notification is delivered, also when reset, add or remove happened while the
\* draw was waiting.
C23_RemainingCount ==
  out.op = "drawResolve" =>
    \A i \in 1..Len(out.events) :
      out.events[i].type = "draw-complete" =>
        out.events[i].count = Len(getAvailableStudents(students))

\* C24: addStudent without an id gives the new student a positive integer id
\* that no other student of the roster has, whatever the roster is, the empty
\* roster included.
C24_FreshId ==
  out.op = "addStudent" =>
    /\ out.id > 0
    /\ Cardinality({i \in 1..Len(students) : students[i].id = out.id}) = 1

\* C25: only reset() clears the history.  A draw that gets past its checks
\* appends exactly one record; a rejected draw, the end of a draw's delay,
\* setDrawMode, getDrawHistory, getStatistics and the pool's add, remove and
\* import leave the history as it is; the records already stored are never
\* changed or reordered.
C25_HistoryFrame ==
  [][CASE out'.op = "reset" -> drawHistory' = <<>>
       [] out'.op = "drawCard" /\ out'.result = "pending" ->
            /\ Len(drawHistory') = Len(drawHistory) + 1
            /\ SubSeq(drawHistory', 1, Len(drawHistory)) = drawHistory
       [] OTHER -> drawHistory' = drawHistory]_vars

\* the roster was replaced by an import while the history held two records
C25_Witness ==
  /\ Len(drawHistory) >= 2
  /\ out.op = "importStudents" /\ out.result = "true"

\* C27: for the snapshot S of available students in roster order, the weights
\* w and a number R in [0, W), W the sum of the weights over S, weightedDraw
\* returns the first student whose prefix sum w_1 + ... + w_k reaches R, and the
\* last one only if no prefix sum does; the result is always a member of S.
\* R is kept multiplied by RandomDen, as the walk keeps it.
C27_WeightedWalk ==
  /\ [](LET S == getAvailableStudents(students)
            n == Len(S)
            W == totalWeight(S, rarityWeights)
            prefix(k) == totalWeight(SubSeq(S, 1, k), rarityWeights)
            reached(R) == {k \in 1..n : RandomDen * prefix(k) >= R}
            first(R) == IF reached(R) = {} THEN n
                        ELSE CHOOSE k \in reached(R) : \A j \in reached(R) : k <= j
        IN n > 0 =>
             /\ \A R \in 0..(RandomDen * W - 1) :
                  weightedWalk(S, rarityWeights, R) = S[first(R)]
             /\ \A u \in Randoms :
                  weightedDraw(S, rarityWeights, u) = S[first(u * W)])
  /\ [][(out'.op = "drawCard" /\ out'.result = "pending" /\ currentMode = "weighted") =>
          LET S == getAvailableStudents(students)
              W == totalWeight(S, rarityWeights)
              prefix(k) == totalWeight(SubSeq(S, 1, k), rarityWeights)
          IN \E u \in Randoms, k \in 1..Len(S) :
               /\ drawHistory'[Len(drawHistory')].student = S[k].id
               /\ RandomDen * prefix(k) >= u * W
               /\ \A j \in 1..(k - 1) : RandomDen * prefix(j) < u * W]_vars

\* a weighted draw under configured weights went past the first student
C27_Witness ==
  /\ out.op = "drawCard" /\ out.result = "pending"
  /\ rarityWeights # DefaultRarityWeights
  /\ Len(drawHistory) = 1
  /\ drawHistory[1].mode = "weighted"
  /\ drawHistory[1].student # students[1].id

\* C28: the weight used for a student is the weight configured for its rarity,
\* for every configured weight that is not negative, 0 included: a student whose
\* rarity has weight 0 is never drawn by a weighted draw while some available
\* student has a positive weight.
C28_ZeroWeightNeverDrawn ==
  [][(out'.op = "drawCard" /\ out'.result = "pending" /\ currentMode = "weighted") =>
       LET S == getAvailableStudents(students)
           drawRecord == drawHistory'[Len(drawHistory')]
       IN (\E i \in 1..Len(S) : rarityWeights[S[i].rarity] > 0)
            => rarityWeights[drawRecord.rarity] > 0]_vars

\* C29: under the random policy the student selected is always a member of the
\* snapshot of available students taken when drawCard was called (the index
\* floor(U * n) lies in 0..n-1 for every U in [0, 1)), and every member of the
\* snapshot is a possible outcome.
C29_UniformDraw ==
  /\ [](LET S == getAvailableStudents(students) IN
        /\ \A u \in Randoms : Len(S) > 0 => \E k \in 1..Len(S) : randomDraw(S, u) = S[k]
        /\ \A k \in 1..Len(S) : \E u \in Randoms : randomDraw(S, u) = S[k])
  /\ [][(out'.op = "drawCard" /\ out'.result = "pending" /\ currentMode = "random") =>
          LET S == getAvailableStudents(students) IN
          \E u \in Randoms, k \in 1..Len(S) :
            /\ randomDraw(S, u) = S[k]
            /\ drawHistory'[Len(drawHistory')].student = S[k].id]_vars

\* a random draw took the last student of a snapshot of several
C29_Witness ==
  /\ out.op = "drawCard" /\ out.result = "pending"
  /\ Len(drawHistory) = 1
  /\ drawHistory[1].mode = "random"
  /\ Len(students) > 1
  /\ drawHistory[1].student = students[Len(students)].id

\* C30: every drawCard() that passes the Busy and ExhaustedPool checks emits
\* exactly one draw-start, carrying the number of available students at call
\* time and emitted when the engine is already Drawing, and is followed by
\* exactly one terminal notification, draw-complete or draw-error: never both,
\* never neither.
C30_NotificationProtocol ==
  /\ [][(out'.op = "drawCard" /\ out'.result = "pending") =>
          /\ Cardinality({i \in 1..Len(out'.events) :
                            out'.events[i].type = "draw-start"}) = 1
          /\ \A i \in 1..Len(out'.events) :
               /\ out'.events[i].type = "draw-start" =>
                    out'.events[i].count = Len(getAvailableStudents(students))
               /\ out'.events[i].type \notin {"draw-complete", "draw-error"}
          /\ out'.drawingAtStart
          /\ \E p \in pending' \ pending : p.call = out'.call]_vars
  /\ [][out'.op = "reset" =>
          \A i \in 1..Len(out'.events) :
            out'.events[i].type \notin {"draw-start", "draw-complete", "draw-error"}]_vars
  /\ [][out'.op = "drawResolve" =>
          /\ \E p \in pending \ pending' : p.call = out'.call
          /\ Cardinality({i \in 1..Len(out'.events) :
                            out'.events[i].type \in {"draw-complete", "draw-error"}}) = 1]_vars
  /\ \A c \in 1..MaxInFlight :
       (\E p \in pending : p.call = c) ~>
         (/\ out.op = "drawResolve" /\ out.call = c
          /\ Cardinality({i \in 1..Len(out.events) :
                            out.events[i].type \in {"draw-complete", "draw-error"}}) = 1)

\* the delay of a draw ended and its one terminal notification was emitted
C30_Witness ==
  /\ out.op = "drawResolve"
  /\ Len(out.events) = 1
  /\ out.events[1].type = "draw-complete"
  /\ Len(drawHistory) >= 1

\* C32: if reset() is called while a draw is suspended, then from reset-complete
\* until the next drawCard() call every student stays undrawn and the history
\* stays empty, also when the suspended draw resolves in between.
C32_NoResurrection ==
  /\ [](out.op = "reset" =>
          /\ drawHistory = <<>>
          /\ \A i \in 1..Len(students) : ~students[i].isDrawn)
  /\ [][(/\ drawHistory = <<>>
         /\ \A i \in 1..Len(students) : ~students[i].isDrawn
         /\ out'.op # "drawCard") =>
          /\ drawHistory' = <<>>
          /\ \A i \in 1..Len(students') : ~students'[i].isDrawn]_vars

\* a draw that was suspended when reset() ran has resolved, and nothing came back
C32_Witness ==
  /\ out.op = "drawResolve" /\ out.resetInFlight
  /\ drawHistory = <<>>
  /\ \A i \in 1..Len(students) : ~students[i].isDrawn

\* C33: in every reachable state under draw, reset, add, remove and import,
\* every record of the history refers to a student that is in the roster and
\* marked drawn, and the history has as many records as getDrawnStudents()
\* has students.
C33_HistoryMatchesPool ==
  /\ \A k \in 1..Len(drawHistory) :
       \E i \in 1..Len(students) :
         students[i].id = drawHistory[k].student /\ students[i].isDrawn
  /\ Len(drawHistory) = Len(getDrawnStudents(students))

\* C36: canDraw() agrees with drawCard(): when canDraw().canDraw is true a
\* drawCard() called right after it is rejected neither as Busy nor as
\* ExhaustedPool, and when it is false the drawCard() is rejected with the
\* error that matches the reported reason.
C36_CanDrawAgrees ==
  [][(out.op = "canDraw" /\ out'.op = "drawCard") =>
       IF out.value.canDraw
       THEN out'.result \notin {"Busy", "ExhaustedPool"}
       ELSE /\ out.value.reason \in {"drawing", "no cards left"}
            /\ out'.result = IF out.value.reason = "drawing" THEN "Busy"
                             ELSE "ExhaustedPool"]_vars

\* canDraw() was asked while the last student's draw was suspended
C36_Witness ==
  /\ out.op = "canDraw"
  /\ ~out.value.canDraw
  /\ out.value.isDrawing
  /\ out.value.availableCount = 0

\* C37: the roster keeps insertion order: addStudent appends, removeStudent
\* takes one student out and keeps the others in place, and no other operation,
\* in particular no draw under the sequential policy and no previewNextDraw(),
\* changes the order of the students in the pool.
C37_InsertionOrder ==
  [][LET ids(studs) == [i \in 1..Len(studs) |-> studs[i].id] IN
     CASE out'.op = "addStudent" ->
            /\ Len(students') = Len(students) + 1
            /\ SubSeq(students', 1, Len(students)) = students
       [] out'.op = "removeStudent" ->
            \/ students' = students
            \/ \E i \in 1..Len(students) :
                 students' = SubSeq(students, 1, i - 1)
                               \o SubSeq(students, i + 1, Len(students))
       [] OTHER -> ids(students') = ids(students)]_vars

\* a sequential draw took the student with the smallest id from a roster whose
\* first student has a larger id
C37_Witness ==
  /\ out.op = "drawCard" /\ out.result = "pending"
  /\ Len(students) >= 2
  /\ students[1].id > students[2].id
  /\ drawHistory[Len(drawHistory)].mode = "sequential"
  /\ drawHistory[Len(drawHistory)].student = students[2].id

\* C38: within one cycle the timestamps of consecutive history records do not
\* decrease, the timestamp of a record is not earlier than the drawnAt of its
\* student, and getStatistics() reports an average interval of zero while the
\* history has fewer than two records.
C38_TimestampsOrdered ==
  /\ \A k \in 1..(Len(drawHistory) - 1) :
       drawHistory[k].timestamp <= drawHistory[k + 1].timestamp
  /\ \A k \in 1..Len(drawHistory) :
       \A i \in 1..Len(students) :
         (students[i].id = drawHistory[k].student /\ students[i].isDrawn) =>
           students[i].drawnAt <= drawHistory[k].timestamp
  /\ Len(drawHistory) < 2 => getStatistics(State).value.averageDrawTime = 0
  /\ out.op = "getStatistics" =>
       (out.value.totalDraws < 2 => out.value.averageDrawTime = 0)

\* statistics were taken over two records drawn at different times
C38_Witness ==
  /\ out.op = "getStatistics"
  /\ Len(drawHistory) >= 2
  /\ drawHistory[1].timestamp < drawHistory[2].timestamp
  /\ out.value.averageDrawTime > 0

\* ------------------------------------------------- listeners that throw
\* CardDrawEngine.addEventListener: pushed if the event is a known one
addEventListener(s, event, callback) ==
  Outcome("addEventListener",
          IF event \in engineEvents
          THEN [s EXCEPT !.eventListeners[event] = Append(@, callback)]
          ELSE s,
          "ok", <<>>, 0, TRUE, NoNested)

\* StudentDataManager.addEventListener: the same, with a warning otherwise
poolAddEventListener(s, event, callback) ==
  Outcome("addEventListener",
          IF event \in poolEvents
          THEN [s EXCEPT !.eventListeners[event] = Append(@, callback)]
          ELSE s,
          "ok", <<>>, 0, TRUE, NoNested)

\* the callbacks registered for the events of a draw
registered(listeners) ==
  Len(listeners["draw-start"]) + Len(listeners["draw-complete"])
    + Len(listeners["student-drawn"])

AddEventListener ==
  /\ registered(eventListeners) < MaxListeners
  /\ \E event \in {"draw-start", "draw-complete"}, callback \in {"render", "throw"} :
       Do(addEventListener(State, event, callback))

PoolAddEventListener ==
  /\ registered(eventListeners) < MaxListeners
  /\ \E callback \in {"render", "throw"} :
       Do(poolAddEventListener(State, "student-drawn", callback))

\* draws and resets of an engine whose listeners may throw
NextListeners ==
  \/ AddEventListener
  \/ PoolAddEventListener
  \/ DrawCardCapped
  \/ DrawResolve
  \/ Reset

SpecListeners == InitOrdinary /\ [][NextListeners]_vars

\* C35: an exception thrown by a listener of the engine or of the pool stays
\* inside emit(): every callback registered for the event is called, also
\* those after the one that threw, and the emitting operation goes on.  A
\* drawCard() that passed its checks commits and suspends whatever its
\* draw-start and student-drawn listeners do, and its continuation emits
\* draw-complete, returns success and leaves the engine not drawing.
C35_ListenerIsolation ==
  /\ out.op \in {"drawCard", "drawResolve"} =>
       \A i \in 1..Len(out.value) : out.value[i].called = out.value[i].listeners
  /\ out.op = "drawCard" =>
       /\ out.result \in {"Busy", "ExhaustedPool", "pending"}
       /\ out.result = "pending" =>
            /\ isDrawing
            /\ Len(drawHistory) = out.histLen0 + 1
            /\ HasEvent("student-drawn")
            /\ HasEvent("data-updated")
  /\ out.op = "drawResolve" =>
       /\ out.result = "success"
       /\ HasEvent("draw-complete")
       /\ ~HasEvent("draw-error")
       /\ ~isDrawing

\* a draw completed although the first of its two draw-complete listeners
\* threw, and the second one was still called
C35_Witness ==
  /\ out.op = "drawResolve"
  /\ Len(eventListeners["draw-complete"]) = 2
  /\ eventListeners["draw-complete"][1] = "throw"
  /\ out.value[1].caught >= 1
  /\ out.value[1].called = 2
  /\ ~isDrawing

\* ---------------------------------------------------------- EventHandler
\* the id setTimeout returns: one larger than every id still known
freeTimer(s) ==
  LET known == {tm.id : tm \in s.timers} \cup {s.debounceTimers[k] : k \in debounceKeys}
  IN 1 + (CHOOSE n \in known \cup {0} : \A m \in known : m <= n)

\* clearTimeout(id)
clearTimeout(tms, id) == {tm \in tms : tm.id # id}

\* a debounce that sets the new timer without clearing the pending one
debounce_keepPending(s, key) ==
  LET timer == freeTimer(s) IN
  [s EXCEPT !.timers = @ \cup {[id |-> timer, key |-> key]},
            !.debounceTimers[key] = timer]

\* debounce(key, func, delay): the pending timer of the key is cleared, a new
\* one is set and stored under the key
debounce(s, key) ==
  LET timer == freeTimer(s)
      pendingTimers == IF s.debounceTimers[key] # 0
                       THEN clearTimeout(s.timers, s.debounceTimers[key])
                       ELSE s.timers
  IN [s EXCEPT !.timers = pendingTimers \cup {[id |-> timer, key |-> key]},
               !.debounceTimers[key] = timer]

\* handleDrawCard(): ignored while isProcessing, debounced otherwise
handleDrawCard(s) ==
  IF s.isProcessing
  THEN Outcome("handleDrawCard", s, "ignored", <<>>, 0, TRUE, NoNested)
  ELSE [Outcome("handleDrawCard", debounce(s, "draw"), "debounced", <<>>, 0, TRUE, NoNested)
          EXCEPT !.id = freeTimer(s)]

\* handleReset(): always debounced
handleReset(s) ==
  [Outcome("handleReset", debounce(s, "reset"), "debounced", <<>>, 0, TRUE, NoNested)
     EXCEPT !.id = freeTimer(s)]

\* the function handleDrawCard passes to debounce.  drawCard() is called
\* without await and without a rejection handler: the promise it returns is
\* dropped, so the catch block sees none of its errors.
drawFunc(s, u) ==
  LET processing == [s EXCEPT !.isProcessing = TRUE]
      availableStudents == getAvailableStudents(processing.students)
  IN IF Len(availableStudents) = 0
     THEN Outcome("drawFunc", [processing EXCEPT !.isProcessing = FALSE],
                  "no cards left", <<>>, 0, TRUE, NoNested)
     ELSE [drawCard(processing, u, [kind |-> "none", id |-> 0], 0)
             EXCEPT !.op = "drawFunc"]

\* the function handleReset passes to debounce; confirmed is what confirm()
\* returned.  reset() is synchronous, its TypeError reaches the catch block.
resetFunc(s, confirmed) ==
  IF confirmed
  THEN [reset(s) EXCEPT !.op = "resetFunc"]
  ELSE Outcome("resetFunc", s, "cancelled", <<>>, 0, TRUE, NoNested)

\* the callback debounce gives to setTimeout: func(), then the key is deleted
timeout(s, tm, u, confirmed) ==
  LET fired == [s EXCEPT !.timers = @ \ {tm}]
      f == IF tm.key = "draw" THEN drawFunc(fired, u) ELSE resetFunc(fired, confirmed)
  IN [f EXCEPT !.s.debounceTimers[tm.key] = 0, !.id = tm.id, !.mode = tm.key]

\* bindModuleEvents(): the handler's callbacks are registered with the engine
\* and the pool
bindModuleEvents(listeners) ==
  [listeners EXCEPT !["draw-start"] = Append(@, "handleDrawStart"),
                    !["draw-complete"] = Append(@, "handleDrawComplete"),
                    !["draw-error"] = Append(@, "handleDrawError"),
                    !["reset-complete"] = Append(@, "handleResetComplete"),
                    !["data-updated"] = Append(@, "handleDataUpdated"),
                    !["data-imported"] = Append(@, "handleDataImported")]

HandleDrawCard ==
  /\ freeTimer(State) <= MaxTimerId
  /\ Do(handleDrawCard(State))

HandleReset ==
  /\ freeTimer(State) <= MaxTimerId
  /\ Do(handleReset(State))

Timeout ==
  \E tm \in timers, u \in Randoms :
    \E confirmed \in (IF tm.key = "reset" THEN BOOLEAN ELSE {TRUE}) :
      Do(timeout(State, tm, u, confirmed))

\* App.initialize(): initializeModules() constructs the pool, the engine with
\* no argument and the handler; connectModules() hands the three to
\* EventHandler.initialize(), which binds the handler's callbacks
InitApp ==
  /\ \E rarity \in InitialRarities : students = initializeDefaultData(rarity)
  /\ studentDataManager = "undefined"
  /\ eventListeners = bindModuleEvents(noListeners)
  /\ InitHandler
  /\ InitFields

\* an EventHandler initialized with a pool and an engine constructed on it
InitConnected ==
  /\ students = initializeDefaultData([i \in 1..DefaultStudentCount |-> "N"])
  /\ studentDataManager = "pool"
  /\ eventListeners = bindModuleEvents(noListeners)
  /\ InitHandler
  /\ InitFields

\* the application: draw and reset triggers, their timers, and the pool's
\* own marking (no draw of this engine ever reaches its delay)
NextApp ==
  \/ HandleDrawCard
  \/ HandleReset
  \/ Timeout
  \/ MarkStudentAsDrawn

SpecApp == InitApp /\ [][NextApp]_vars

\* every timer that was set and not cleared fires
FairApp == SpecApp /\ WF_vars(Timeout)

NextHandler == HandleDrawCard \/ HandleReset \/ Timeout \/ DrawResolve

SpecHandler == InitConnected /\ [][NextHandler]_vars

\* C31 (as claimed): in the application, the function of a draw trigger that
\* finds a card left makes the engine read the pool, emit draw-start and
\* suspend in the Drawing state (from which draw-complete follows).
C31_TriggerStartsDraw ==
  (out.op = "drawFunc" /\ out.result # "no cards left") =>
    /\ out.result = "pending"
    /\ HasEvent("draw-start")
    /\ isDrawing

\* C34 (as claimed): whenever the handler is processing a draw trigger,
\* isProcessing eventually returns to false.
C34_ProcessingClears == isProcessing ~> ~isProcessing

\* C39: at most one timer is pending for a key and it is the one stored under
\* the key; a draw trigger calls nothing of the engine and, unless ignored,
\* leaves its own new timer as the only pending draw timer, whatever was
\* pending before; the timer that fires for "draw" is the one set by the
\* last trigger, it makes the one drawCard() call, and no draw timer is
\* pending after it.
C39_DebounceCoalesces ==
  /\ [](\A tm \in timers :
          /\ debounceTimers[tm.key] = tm.id
          /\ \A other \in timers : other.key = tm.key => other = tm)
  /\ [][out'.op = "handleDrawCard" =>
          /\ UNCHANGED <<students, drawHistory, isDrawing, pending, isProcessing>>
          /\ out'.result = "debounced" =>
               {tm \in timers' : tm.key = "draw"} = {[id |-> out'.id, key |-> "draw"]}
          /\ out'.result = "ignored" => UNCHANGED timers]_vars
  /\ [][out'.op = "drawFunc" =>
          /\ out'.id = debounceTimers["draw"]
          /\ {tm \in timers' : tm.key = "draw"} = {}
          /\ debounceTimers'["draw"] = 0
          /\ Len(drawHistory') <= Len(drawHistory) + 1
          /\ Cardinality(pending') <= Cardinality(pending) + 1]_vars

\* a trigger arrived while the timer of an earlier trigger was pending: the
\* earlier timer is gone, the new one is the only timer
C39_Witness ==
  /\ out.op = "handleDrawCard"
  /\ out.result = "debounced"
  /\ out.id = 2
  /\ timers = {[id |-> 2, key |-> "draw"]}
====
